---- MODULE Spec2Model ----
(***************************************************************************)
(* A model of cjvirtucio87/tftp-go: the wire codec (pkg/tftp/operations.go),*)
(* the server's dispatch loop and per-datagram handler (Server.Serve,       *)
(* Server.handle, sendDataPkt) and the client's Send (Client.Send,          *)
(* Client.waitForData, Client.sendAck, Client.sendRrq), over a datagram     *)
(* transport that may lose, duplicate and reorder.                          *)
(*                                                                         *)
(* Datagrams are sequences of bytes (0..255).  Both receive loops read into *)
(* a fresh buffer of DatagramSize bytes and decode the WHOLE buffer (the    *)
(* byte count ReadFrom returns is discarded), which ReadFrom models.        *)
(***************************************************************************)
EXTENDS Integers, Sequences, FiniteSets, Bags, TLC

(***************************************************************************)
(* Program constants                                                       *)
(***************************************************************************)
OpCodeSize == 2
BlockNumberSize == 2
DatagramSize == 516
BlockSize == DatagramSize - (OpCodeSize + BlockNumberSize)

OpRRQ == 1
OpData == 3
OpAck == 4
OpErr == 5

(***************************************************************************)
(* Bounds of the model                                                     *)
(***************************************************************************)
\* the longest payload of whole blocks that is tried
MaxBlocks == 1
\* Client.Retries is drawn from 0..MaxRetries
MaxRetries == 2
\* what the environment does in one run: datagrams the other peer sends,
\* datagrams the transport loses or duplicates, reads that fail
MaxEnv == 2
\* the datagrams the peer of PeerSpec sends
MaxPeer == 3

Uint16 == 65536

(***************************************************************************)
(* Byte strings                                                            *)
(***************************************************************************)
Min(a, b) == IF a < b THEN a ELSE b

Take(s, n) == SubSeq(s, 1, Min(n, Len(s)))

\* make([]byte, DatagramSize): a buffer of zero bytes
ZeroBuf == [k \in 1..DatagramSize |-> 0]

Zeros(n) == Take(ZeroBuf, n)

Drop(s, n) == SubSeq(s, Min(n, Len(s)) + 1, Len(s))

\* binary.Write(b, binary.BigEndian, uint16)
PutU16(v) == <<v \div 256, v % 256>>

\* binary.Read(r, binary.BigEndian, &uint16): fails on fewer than two bytes
GetU16(b) ==
    IF Len(b) < 2 THEN [ok |-> FALSE, v |-> 0, rest |-> b]
    ELSE [ok |-> TRUE, v |-> b[1] * 256 + b[2], rest |-> Drop(b, 2)]

\* index of the first zero byte of s at or after k, 0 when there is none
RECURSIVE ZeroFrom(_, _)
ZeroFrom(s, k) ==
    IF k > Len(s) THEN 0
    ELSE IF s[k] = 0 THEN k
    ELSE ZeroFrom(s, k + 1)

FirstZero(s) == ZeroFrom(s, 1)

\* bytes.Buffer.ReadString(0): up to and including the first zero byte; an
\* error (io.EOF) when the buffer holds none
ReadString(s) ==
    LET z == FirstZero(s) IN
    IF z = 0 THEN [ok |-> FALSE, str |-> s, rest |-> <<>>]
    ELSE [ok |-> TRUE, str |-> Take(s, z), rest |-> Drop(s, z)]

\* strings.TrimRight(s, "\x00")
RECURSIVE TrimRight(_)
TrimRight(s) ==
    IF Len(s) > 0 /\ s[Len(s)] = 0 THEN TrimRight(SubSeq(s, 1, Len(s) - 1)) ELSE s

\* the simple case folding of an ASCII letter, as strings.EqualFold applies it
Fold(c) == IF c >= 65 /\ c <= 90 THEN c + 32 ELSE c

\* a comparison that folds nothing
EqualExact(s, t) == s = t

\* strings.EqualFold
EqualFold(s, t) ==
    /\ Len(s) = Len(t)
    /\ \A k \in 1..Len(s) : Fold(s[k]) = Fold(t[k])

\* "octet"
Octet == <<111, 99, 116, 101, 116>>
\* "foo.txt" is the file the client script asks for; "f" stands for it
FileName == <<102>>

(***************************************************************************)
(* Operations (type Operation).  One record shape for the three variants   *)
(* the top-level decoder returns.                                          *)
(***************************************************************************)
MkOp(t, blk, fn, md, code, msg) ==
    [type |-> t, Block |-> blk, Filename |-> fn, Mode |-> md,
     Error |-> code, Message |-> msg]

NoOp == MkOp("none", 0, <<>>, <<>>, 0, <<>>)

\* Ack.MarshalBinary
AckMarshal(a) == PutU16(OpAck) \o PutU16(a)

\* a decoder of Acks that does not look at the op-code
AckUnmarshalAnyCode(b) ==
    LET c == GetU16(b) IN
    IF ~c.ok THEN [ok |-> FALSE, Block |-> 0]
    ELSE LET a == GetU16(c.rest) IN [ok |-> a.ok, Block |-> a.v]

\* (*Ack).UnmarshalBinary
AckUnmarshal(b) ==
    LET c == GetU16(b) IN
    IF ~c.ok THEN [ok |-> FALSE, Block |-> 0]
    ELSE IF c.v # OpAck THEN [ok |-> FALSE, Block |-> 0]
    ELSE LET a == GetU16(c.rest) IN [ok |-> a.ok, Block |-> a.v]

\* A Data value: the block counter and the reader, held as the bytes the
\* reader has not yet returned.
MkData(blk, rd) == [Block |-> blk, Payload |-> rd]

\* an encoder whose block counter does not wrap at 16 bits
DataMarshalNoWrap(d) ==
    LET blk == d.Block + 1 IN
    [wire |-> PutU16(OpData) \o PutU16(blk) \o Take(d.Payload, BlockSize),
     d |-> MkData(blk, Drop(d.Payload, BlockSize))]

\* (*Data).MarshalBinary: increments the block counter of the value it is
\* called on, writes op-code and block, then up to BlockSize payload bytes
\* (io.EOF tolerated).  Returns the wire bytes and the mutated value.
DataMarshal(d) ==
    LET blk == (d.Block + 1) % Uint16 IN
    [wire |-> PutU16(OpData) \o PutU16(blk) \o Take(d.Payload, BlockSize),
     d |-> MkData(blk, Drop(d.Payload, BlockSize))]

\* (*Data).UnmarshalBinary
DataUnmarshal(b) ==
    IF Len(b) < 4 THEN [ok |-> FALSE, d |-> MkData(0, <<>>)]
    ELSE IF Len(b) > DatagramSize THEN [ok |-> FALSE, d |-> MkData(0, <<>>)]
    ELSE IF GetU16(b).v # OpData THEN [ok |-> FALSE, d |-> MkData(0, <<>>)]
    ELSE [ok |-> TRUE, d |-> MkData(GetU16(Drop(b, 2)).v, Drop(b, 4))]

\* ReadRequest.MarshalBinary
RrqMarshal(fn, md) == PutU16(OpRRQ) \o fn \o <<0>> \o md \o <<0>>

\* a decoder of ReadRequests without the test of the filename's length
RrqUnmarshalAnyName(b) ==
    LET c == GetU16(b)
        f == ReadString(c.rest)
        fn == TrimRight(f.str)
        m == ReadString(f.rest)
        md == TrimRight(m.str)
        Fail(e) == [ok |-> FALSE, err |-> e, Filename |-> <<>>, Mode |-> <<>>]
    IN  IF ~c.ok THEN Fail("no opcode")
        ELSE IF c.v # OpRRQ THEN Fail("invalid code")
        ELSE IF ~f.ok THEN Fail("error reading filename")
        ELSE IF ~m.ok THEN Fail("invalid mode")
        ELSE IF Len(md) = 0 THEN Fail("invalid mode")
        ELSE IF ~EqualFold(Octet, md) THEN Fail("unsupported mode")
        ELSE [ok |-> TRUE, err |-> "", Filename |-> fn, Mode |-> md]

\* (*ReadRequest).UnmarshalBinary; err names the failure
RrqUnmarshal(b) ==
    LET c == GetU16(b)
        f == ReadString(c.rest)
        fn == TrimRight(f.str)
        m == ReadString(f.rest)
        md == TrimRight(m.str)
        Fail(e) == [ok |-> FALSE, err |-> e, Filename |-> <<>>, Mode |-> <<>>]
    IN  IF ~c.ok THEN Fail("no opcode")
        ELSE IF c.v # OpRRQ THEN Fail("invalid code")
        ELSE IF ~f.ok THEN Fail("error reading filename")
        ELSE IF Len(fn) = 0 THEN Fail("invalid filename")
        ELSE IF ~m.ok THEN Fail("invalid mode")
        ELSE IF Len(md) = 0 THEN Fail("invalid mode")
        ELSE IF ~EqualFold(Octet, md) THEN Fail("unsupported mode")
        ELSE [ok |-> TRUE, err |-> "", Filename |-> fn, Mode |-> md]

\* Err.MarshalBinary: op-code, error code, then io.CopyN of DatagramSize bytes
\* of the message, whose error (io.EOF when the message is shorter) is
\* returned.  No zero byte is written after the message.
ErrMarshal(code, msg) ==
    IF Len(msg) < DatagramSize
    THEN [ok |-> FALSE, wire |-> <<>>]
    ELSE [ok |-> TRUE, wire |-> PutU16(OpErr) \o PutU16(code) \o Take(msg, DatagramSize)]

\* Err.UnmarshalBinary.  The receiver is a value: the code and message read
\* are stored in the method's copy, and the caller's Err keeps its zero
\* fields.  ok is what the returned error says.
ErrUnmarshal(b) ==
    LET c == GetU16(b)
        e == GetU16(c.rest)
        m == ReadString(e.rest)
    IN  IF ~c.ok THEN [ok |-> FALSE, Error |-> 0, Message |-> <<>>]
        ELSE IF c.v # OpErr THEN [ok |-> FALSE, Error |-> 0, Message |-> <<>>]
        ELSE IF ~e.ok THEN [ok |-> FALSE, Error |-> 0, Message |-> <<>>]
        ELSE [ok |-> m.ok, Error |-> 0, Message |-> <<>>]

\* UnmarshalBinary: the first of ReadRequest, Ack, Err that decodes
UnmarshalBinary(buf) ==
    LET r == RrqUnmarshal(buf)
        a == AckUnmarshal(buf)
        e == ErrUnmarshal(buf)
    IN  IF r.ok THEN [ok |-> TRUE, op |-> MkOp("rrq", 0, r.Filename, r.Mode, 0, <<>>)]
        ELSE IF a.ok THEN [ok |-> TRUE, op |-> MkOp("ack", a.Block, <<>>, <<>>, 0, <<>>)]
        ELSE IF e.ok THEN [ok |-> TRUE, op |-> MkOp("err", 0, <<>>, <<>>, e.Error, e.Message)]
        ELSE [ok |-> FALSE, op |-> NoOp]

\* conn.ReadFrom(buf) with buf := make([]byte, DatagramSize): the datagram's
\* bytes (cut at the buffer's size) followed by the buffer's zero bytes
ReadFrom(dgram) ==
    LET got == Take(dgram, DatagramSize) IN got \o Zeros(DatagramSize - Len(got))

(***************************************************************************)
(* The server's handler                                                    *)
(***************************************************************************)
\* a handler whose Data value starts at block 1, so that its first Data
\* packet is block 2 (what C6 would not survive)
NewDataPktFromOne(payload) == MkData(1, payload)

\* Data{Payload: bytes.NewReader(s.Payload)}: block 0, the reader at the
\* payload's first byte
NewDataPkt(payload) == MkData(0, payload)

\* the comparison handle makes before answering an Ack
AckMatches(ackBlock, dataPkt) == ackBlock = dataPkt.Block

\* sendDataPkt: marshals its own copy of the Data value (the parameter is
\* passed by value) and writes the bytes to the peer; the wire bytes written
SendDataPkt(dataPkt) == DataMarshal(dataPkt).wire

\* the caller's Data value after sendDataPkt(conn, addr, dataPkt) returns:
\* the parameter is a copy, and MarshalBinary increments the copy's Block
CallerAfterSend(dataPkt) == dataPkt

\* Server.handle: the datagrams it writes to the peer for one operation
HandleOut(op, payload) ==
    CASE op.type = "rrq" -> <<SendDataPkt(NewDataPkt(payload))>>
      [] op.type = "ack" ->
            IF AckMatches(op.Block, NewDataPkt(payload))
            THEN <<SendDataPkt(NewDataPkt(payload))>>
            ELSE <<>>
      [] op.type = "err" -> <<>>
      [] OTHER -> <<>>

(***************************************************************************)
(* The client's loop                                                       *)
(***************************************************************************)
\* a loop that goes on after a payload of BlockSize bytes, which every
\* decoded buffer holds (what C8 would not survive)
SendLoopContinuesBlock(n) == n = BlockSize

\* Client.Send: for n == DatagramSize { ... n, err = io.Copy(...) ... }
SendLoopContinues(n) == n = DatagramSize

(***************************************************************************)
(* State                                                                   *)
(***************************************************************************)
VARIABLES
    plen,       \* len(Server.Payload); the payload itself is Payload below
    Retries,    \* Client.Retries
    net,        \* datagrams in flight: a bag of [src, dst, data]
    srv,        \* Serve: "serving", or "decodeerr" once it has returned
    rejected,   \* the datagram on whose decode error Serve returned, as sent
    handlers,   \* goroutines started by Serve and not yet run: a bag of [addr, op]
    sent,       \* per peer, the Data datagrams the server has written to it,
                \* each with the operation it answered: [wire, by, ack]
    acked,      \* per peer, the block numbers of the Acks Serve has decoded
    errored,    \* per peer, how many Data packets had been written to it when
                \* the handler of its last Err packet ran; -1 when none has run
    cpc,        \* Send: "init", "waiting" (in ReadFrom), "done" (nil), "failed"
    tries,      \* waitForData's loop counter i
    sink,       \* the bytes written to Client.Writer
    cAcks,      \* the block numbers of the Acks the client has sent
    cSent,      \* the datagrams the client has written, in order
    cLast,      \* the last datagram the client's ReadFrom returned, as sent
    reads,      \* how many times the client's ReadFrom has returned
    injected,   \* datagrams the other peer has sent
    faults,     \* datagrams lost or duplicated, and failed reads
    codec       \* the last call of the codec made on its own: its input and result

vars == <<plen, Retries, net, srv, rejected, handlers, sent, acked, errored, cpc, tries, sink,
          cAcks, cSent, cLast, reads, injected, faults, codec>>

\* the payload lengths tried: every whole number of blocks up to MaxBlocks,
\* a short payload and one of a full block and a short one (1000 = 512 + 488)
PayloadLens == {b * BlockSize : b \in 0..MaxBlocks} \cup {488, 1000}

\* the bytes payloads are cut from, none of them zero
PayloadBytes == [k \in 1..((MaxBlocks + 2) * BlockSize) |-> ((k - 1) % 251) + 1]

\* Server.Payload: the file's bytes, read before Serve starts and never written
Payload == Take(PayloadBytes, plen)

serverVars == <<srv, rejected, handlers, sent, acked, errored>>
clientVars == <<cpc, tries, sink, cAcks, cSent, cLast, reads>>
config == <<plen, Retries, codec>>

ServerAddr == "s"
ClientAddr == "c"
OtherAddr == "x"
Peers == {ClientAddr, OtherAddr}

Dgram(from, to, b) == [src |-> from, dst |-> to, data |-> b]

\* An endpoint's socket is open while its loop runs: the server's until Serve
\* returns (ListenAndServe's deferred conn.Close, then log.Fatal), the
\* client's while Send waits in ReadFrom.  The other peer is not a reader.
Open(to, s, c) ==
    \/ to = ServerAddr /\ s = "serving"
    \/ to = ClientAddr /\ c = "waiting"

\* the datagrams of bag b that are addressed to an open socket: a datagram
\* for a closed socket is dropped by the receiving host
Settle(b, s, c) ==
    LET keep == {m \in BagToSet(b) : Open(m.dst, s, c)} IN
    [m \in keep |-> b[m]]

One(m) == SetToBag({m})

\* what the other peer may send: to the server a valid request, a request
\* with an empty filename, an Ack of block 0, an error packet and a Data
\* packet; to the client an error packet and a Data packet of block 2
ErrWire == PutU16(OpErr) \o PutU16(1) \o <<101, 0>>
Injectable(to) ==
    IF to = ServerAddr
    THEN { RrqMarshal(FileName, Octet),
           RrqMarshal(<<>>, Octet),
           AckMarshal(0),
           ErrWire,
           PutU16(OpData) \o PutU16(1) }
    ELSE { ErrWire,
           PutU16(OpData) \o PutU16(2) \o <<9>> }

Init ==
    /\ plen \in PayloadLens
    /\ Retries \in 0..MaxRetries
    /\ net = EmptyBag
    /\ srv = "serving"
    /\ rejected = <<>>
    /\ handlers = EmptyBag
    /\ sent = [p \in Peers |-> <<>>]
    /\ acked = [p \in Peers |-> {}]
    /\ errored = [p \in Peers |-> -1]
    /\ cpc = "init"
    /\ tries = 0
    /\ sink = <<>>
    /\ cAcks = <<>>
    /\ cSent = <<>>
    /\ cLast = <<>>
    /\ reads = 0
    /\ injected = 0
    /\ faults = 0
    /\ codec = [fn |-> "none"]

(***************************************************************************)
(* Client.Send                                                             *)
(***************************************************************************)
\* a loop that goes round once more: for i := c.Retries; i >= 0; i--
WaitOrFailOnceMore(i) == IF i >= 0 THEN "waiting" ELSE "failed"

\* waitForData's loop entered with counter i: "waiting" in ReadFrom, or the
\* loop is over and Send returns the error
WaitOrFail(i) == IF i > 0 THEN "waiting" ELSE "failed"

\* Send up to its first ReadFrom: sendRrq, then waitForData's loop entry
ClientStart ==
    /\ cpc = "init"
    /\ tries' = Retries
    /\ cpc' = WaitOrFail(Retries)
    /\ cSent' = <<RrqMarshal(FileName, Octet)>>
    /\ UNCHANGED <<sink, cAcks, cLast, reads, serverVars, config, injected, faults>>
    /\ net' = Settle(net (+) One(Dgram(ClientAddr, ServerAddr, RrqMarshal(FileName, Octet))),
                     srv', cpc')

\* ReadFrom returns datagram m: waitForData decodes the buffer; on failure
\* it logs and goes round its loop (i--); on success Send copies the payload
\* to the writer, sends the Ack and tests its own loop
ClientRecv(m) ==
    /\ cpc = "waiting"
    /\ BagIn(m, net)
    /\ m.dst = ClientAddr
    /\ reads' = reads + 1
    /\ cLast' = m.data
    /\ UNCHANGED <<serverVars, config, injected, faults>>
    /\ LET r == DataUnmarshal(ReadFrom(m.data))
           n == Len(r.d.Payload)
       IN  IF ~r.ok
           THEN /\ tries' = tries - 1
                /\ cpc' = WaitOrFail(tries - 1)
                /\ UNCHANGED <<sink, cAcks, cSent>>
                /\ net' = Settle(net (-) One(m), srv', cpc')
           ELSE /\ sink' = sink \o r.d.Payload
                /\ cAcks' = Append(cAcks, r.d.Block)
                /\ cSent' = Append(cSent, AckMarshal(r.d.Block))
                /\ IF SendLoopContinues(n)
                   THEN /\ tries' = Retries
                        /\ cpc' = WaitOrFail(Retries)
                   ELSE /\ cpc' = "done"
                        /\ UNCHANGED tries
                /\ net' = Settle((net (-) One(m))
                                   (+) One(Dgram(ClientAddr, ServerAddr, AckMarshal(r.d.Block))),
                                 srv', cpc')

\* a client that sends its ReadRequest again when a read fails
ClientReadErrResend ==
    /\ cpc = "waiting"
    /\ injected + faults < MaxEnv
    /\ faults' = faults + 1
    /\ reads' = reads + 1
    /\ tries' = tries - 1
    /\ cpc' = WaitOrFail(tries - 1)
    /\ cSent' = Append(cSent, RrqMarshal(FileName, Octet))
    /\ UNCHANGED <<sink, cAcks, cLast, serverVars, config, injected>>
    /\ net' = Settle(net (+) One(Dgram(ClientAddr, ServerAddr, RrqMarshal(FileName, Octet))),
                     srv', cpc')

\* ReadFrom returns an error: waitForData logs it and goes round its loop
ClientReadErr ==
    /\ cpc = "waiting"
    /\ injected + faults < MaxEnv
    /\ faults' = faults + 1
    /\ reads' = reads + 1
    /\ tries' = tries - 1
    /\ cpc' = WaitOrFail(tries - 1)
    /\ UNCHANGED <<sink, cAcks, cSent, cLast, serverVars, config, injected>>
    /\ net' = Settle(net, srv', cpc')

(***************************************************************************)
(* Server.Serve and Server.handle                                          *)
(***************************************************************************)
\* the datagrams the peers of the model address to the server
ServerWires ==
    Injectable(ServerAddr)
        \cup {RrqMarshal(FileName, Octet)}
        \cup {AckMarshal(b) : b \in 0..(MaxBlocks + 2)}

\* Serve's ReadFrom and UnmarshalBinary, worked out once for each of them
Decoded == [w \in ServerWires |-> UnmarshalBinary(ReadFrom(w))]

\* op, err := UnmarshalBinary(buf) on the buffer ReadFrom filled from w
ServeDecode(w) ==
    IF w \in ServerWires THEN Decoded[w] ELSE UnmarshalBinary(ReadFrom(w))

\* one turn of Serve's loop: ReadFrom returns datagram m, UnmarshalBinary
\* decodes the buffer; on an error Serve returns it (the socket is closed and
\* the process exits, so the goroutines still to run write nothing), and
\* otherwise it starts the goroutine s.handle(conn, addr, op)
ServeRecv(m) ==
    /\ srv = "serving"
    /\ BagIn(m, net)
    /\ m.dst = ServerAddr
    /\ LET r == ServeDecode(m.data) IN
       IF ~r.ok
       THEN /\ srv' = "decodeerr"
            /\ rejected' = m.data
            /\ handlers' = EmptyBag
            /\ UNCHANGED acked
       ELSE /\ handlers' = handlers (+) One([addr |-> m.src, op |-> r.op])
            /\ acked' = IF r.op.type = "ack"
                        THEN [acked EXCEPT ![m.src] = @ \cup {r.op.Block}]
                        ELSE acked
            /\ UNCHANGED <<srv, rejected>>
    /\ UNCHANGED <<sent, errored, clientVars, config, injected, faults>>
    /\ net' = Settle(net (-) One(m), srv', cpc')

\* the goroutine s.handle(conn, addr, op) runs
Handle(h) ==
    /\ BagIn(h, handlers)
    /\ handlers' = handlers (-) One(h)
    /\ UNCHANGED <<srv, rejected, acked, clientVars, config, injected, faults>>
    /\ errored' = IF h.op.type = "err"
                  THEN [errored EXCEPT ![h.addr] = Len(sent[h.addr])]
                  ELSE errored
    /\ LET out == HandleOut(h.op, Payload) IN
       /\ sent' = IF out = <<>> THEN sent
                  ELSE [sent EXCEPT ![h.addr] =
                          Append(@, [wire |-> out[1], by |-> h.op.type, ack |-> h.op.Block])]
       /\ net' = IF out = <<>> THEN net
                 ELSE Settle(net (+) One(Dgram(ServerAddr, h.addr, out[1])), srv', cpc')

(***************************************************************************)
(* The transport and the other peer                                        *)
(***************************************************************************)
\* The transport loses or duplicates a datagram of the transfer.  (A lost or
\* doubled datagram of the other peer is one that peer sent not at all or
\* twice, which Inject covers.)
Lose(m) ==
    /\ BagIn(m, net)
    /\ m.src # OtherAddr
    /\ injected + faults < MaxEnv
    /\ faults' = faults + 1
    /\ net' = net (-) One(m)
    /\ UNCHANGED <<serverVars, clientVars, config, injected>>

Duplicate(m) ==
    /\ BagIn(m, net)
    /\ m.src # OtherAddr
    /\ injected + faults < MaxEnv
    /\ faults' = faults + 1
    /\ net' = net (+) One(m)
    /\ UNCHANGED <<serverVars, clientVars, config, injected>>

\* the other peer sends datagram w to an open socket
Inject(to, w) ==
    /\ injected + faults < MaxEnv
    /\ Open(to, srv, cpc)
    /\ injected' = injected + 1
    /\ net' = net (+) One(Dgram(OtherAddr, to, w))
    /\ UNCHANGED <<serverVars, clientVars, config, faults>>

Next ==
    \/ ClientStart
    \/ \E m \in BagToSet(net) : ClientRecv(m)
    \/ ClientReadErr
    \/ \E m \in BagToSet(net) : ServeRecv(m)
    \/ \E h \in BagToSet(handlers) : Handle(h)
    \/ \E m \in BagToSet(net) : Lose(m)
    \/ \E m \in BagToSet(net) : Duplicate(m)
    \/ \E to \in {ServerAddr, ClientAddr} : \E w \in Injectable(to) : Inject(to, w)

Spec == Init /\ [][Next]_vars

\* The server and one peer that sends it what it likes, up to MaxPeer
\* datagrams, over a transport that loses nothing; the client does not start.
PeerSend(w) ==
    /\ injected < MaxPeer
    /\ Open(ServerAddr, srv, cpc)
    /\ injected' = injected + 1
    /\ net' = net (+) One(Dgram(OtherAddr, ServerAddr, w))
    /\ UNCHANGED <<serverVars, clientVars, config, faults>>

PeerNext ==
    \/ \E w \in Injectable(ServerAddr) : PeerSend(w)
    \/ \E m \in BagToSet(net) : ServeRecv(m)
    \/ \E h \in BagToSet(handlers) : Handle(h)

PeerSpec == Init /\ [][PeerNext]_vars

\* What the scheduler guarantees: a goroutine that can run does, and a
\* ReadFrom returns once a datagram waits in its socket.  Nothing makes a
\* ReadFrom without a deadline return when no datagram arrives, and nothing
\* obliges the transport or the other peer to act.
Fairness ==
    /\ WF_vars(ClientStart)
    /\ WF_vars(\E m \in BagToSet(net) : ClientRecv(m))
    /\ WF_vars(\E m \in BagToSet(net) : ServeRecv(m))
    /\ WF_vars(\E h \in BagToSet(handlers) : Handle(h))

FairSpec == Spec /\ Fairness

(***************************************************************************)
(* The codec on its own: one call at a time, on inputs drawn from the sets *)
(* below, beside a server and a client that do not move.                   *)
(***************************************************************************)
protocol == <<plen, Retries, net, serverVars, clientVars, injected, faults>>

\* what the server writes for one datagram w: Serve's ReadFrom and
\* UnmarshalBinary, then handle on the operation decoded; nothing when the
\* decode fails and Serve returns
Answer(w) ==
    LET r == UnmarshalBinary(ReadFrom(w)) IN
    IF r.ok THEN HandleOut(r.op, Payload) ELSE <<>>

\* "netascii", "NETASCII", "mail", "octe", "octets", "0ctet", "binary"
NetAscii == <<110, 101, 116, 97, 115, 99, 105, 105>>
NetAsciiUpper == <<78, 69, 84, 65, 83, 67, 73, 73>>
Mail == <<109, 97, 105, 108>>

\* every spelling of "octet" in upper and lower case letters
Cases(c) == {c, c - 32}
OctetSpellings ==
    {<<o, c, t, e, u>> : o \in Cases(Octet[1]), c \in Cases(Octet[2]),
                         t \in Cases(Octet[3]), e \in Cases(Octet[4]),
                         u \in Cases(Octet[5])}

\* the modes tried
Modes ==
    OctetSpellings
        \cup {<<>>, NetAscii, NetAsciiUpper, Mail, Take(Octet, 4), Octet \o <<115>>,
              <<48>> \o Drop(Octet, 1), <<98, 105, 110, 97, 114, 121>>}

\* a ReadRequest of mode md is encoded, decoded, and given to the server
DecodeRequest(md) ==
    /\ codec' = [fn |-> "rrq", mode |-> md,
                 res |-> RrqUnmarshal(RrqMarshal(FileName, md)),
                 top |-> UnmarshalBinary(ReadFrom(RrqMarshal(FileName, md))),
                 answer |-> Answer(RrqMarshal(FileName, md))]
    /\ UNCHANGED protocol

\* the stored block numbers tried: the first ones, those about a change of
\* the low byte and of the high byte, and the last ones of 16 bits
Blocks ==
    0..MaxBlocks
        \cup {254, 255, 256, 257, 511, 512, 32767, 32768}
        \cup {Uint16 - 258, Uint16 - 257, Uint16 - 256, Uint16 - 2, Uint16 - 1}

\* a Data value of stored block b over the payload is encoded, and the bytes
\* are decoded again
EncodeData(b) ==
    /\ codec' = [fn |-> "data", block |-> b,
                 wire |-> DataMarshal(MkData(b, Payload)).wire,
                 after |-> DataMarshal(MkData(b, Payload)).d,
                 back |-> DataUnmarshal(DataMarshal(MkData(b, Payload)).wire)]
    /\ UNCHANGED protocol

\* an Ack of block a is encoded and the bytes are decoded again
EncodeAck(a) ==
    /\ codec' = [fn |-> "ack", block |-> a,
                 wire |-> AckMarshal(a),
                 back |-> AckUnmarshal(AckMarshal(a))]
    /\ UNCHANGED protocol

\* the error codes ErrUnknown .. ErrNoUser
ErrCodes == 0..7
\* "e", "not found"
Messages == {<<101>>, <<110, 111, 116, 32, 102, 111, 117, 110, 100>>}

\* an Err of the code and message is encoded and, when that succeeds, the
\* bytes are decoded again
EncodeErr(code, msg) ==
    /\ codec' = [fn |-> "err", code |-> code, msg |-> msg,
                 enc |-> ErrMarshal(code, msg),
                 back |-> ErrUnmarshal(ErrMarshal(code, msg).wire)]
    /\ UNCHANGED protocol

\* the op-codes tried that are none of a ReadRequest, Data, Ack or Err
OtherOpCodes == {0, 2, 6, 7, 255, 256, 1024, Uint16 - 1}

\* the buffers given to the top-level decode: well-formed packets of the
\* four kinds, an Err without its closing zero byte, buffers too short for
\* an op-code, and the other op-codes before nothing, before a block number
\* and before the body of a ReadRequest
TopBuffers ==
    { RrqMarshal(FileName, Octet),
      PutU16(OpData) \o PutU16(1),
      PutU16(OpData) \o PutU16(2) \o <<9, 8, 7>>,
      ErrWire,
      PutU16(OpErr) \o PutU16(1) \o <<101>>,
      <<>>, <<0>>, <<4>> }
        \cup {AckMarshal(a) : a \in Blocks}
        \cup {PutU16(c) \o t : c \in OtherOpCodes,
                               t \in {<<>>, PutU16(1), FileName \o <<0>> \o Octet \o <<0>>}}

\* UnmarshalBinary is called on buffer w
DecodeTop(w) ==
    /\ codec' = [fn |-> "top", buf |-> w, res |-> UnmarshalBinary(w)]
    /\ UNCHANGED protocol

\* sendDataPkt is called on a Data value of stored block b over the payload
SendData(b) ==
    /\ codec' = [fn |-> "send", block |-> b,
                 wire |-> SendDataPkt(MkData(b, Payload)),
                 caller |-> CallerAfterSend(MkData(b, Payload))]
    /\ UNCHANGED protocol

CodecNext ==
    \/ \E md \in Modes : DecodeRequest(md)
    \/ \E b \in Blocks : SendData(b)
    \/ \E w \in TopBuffers : DecodeTop(w)
    \/ \E a \in Blocks : EncodeAck(a)
    \/ \E code \in ErrCodes : \E msg \in Messages : EncodeErr(code, msg)
    \/ \E b \in Blocks : EncodeData(b)

CodecSpec == Init /\ [][CodecNext]_vars

(***************************************************************************)
(* Readings of the history                                                 *)
(***************************************************************************)
\* the block number and the payload of a Data datagram
WireBlock(w) == GetU16(Drop(w, 2)).v
WirePayload(w) == Drop(w, 4)
IsDataWire(w) == Len(w) >= 4 /\ GetU16(w).v = OpData
IsErrWire(w) == Len(w) >= 4 /\ GetU16(w).v = OpErr
\* a datagram that is no Data packet: its first two bytes are not op-code 3
NotData(w) == ~(Len(w) >= 2 /\ w[1] = 0 /\ w[2] = 3)
IsAckWire(w) == Len(w) >= 4 /\ GetU16(w).v = OpAck

\* the op-code of each variant of Operation
OpCodeOf(t) ==
    CASE t = "rrq" -> OpRRQ
      [] t = "data" -> OpData
      [] t = "ack" -> OpAck
      [] t = "err" -> OpErr
      [] OTHER -> 0

\* the Data datagram of block b + 1 that continues the payload after b blocks
NextData(b) ==
    PutU16(OpData) \o PutU16((b + 1) % Uint16) \o Take(Drop(Payload, BlockSize * b), BlockSize)

\* the last Data datagram written to peer p
LastSent(p) == sent[p][Len(sent[p])].wire

\* peer p's session: the Data written to it from the answer to its
\* ReadRequest on, when the server has answered exactly one
OneRequest(p) == Cardinality({k \in 1..Len(sent[p]) : sent[p][k].by = "rrq"}) = 1
Session(p) ==
    LET first == CHOOSE k \in 1..Len(sent[p]) : sent[p][k].by = "rrq"
    IN  SubSeq(sent[p], first, Len(sent[p]))

\* a ReadRequest datagram whose filename is empty: the op-code, then at once
\* the filename's terminating zero byte
IsEmptyNameRrq(w) == Len(w) >= 3 /\ GetU16(w).v = OpRRQ /\ w[3] = 0

\* what peer p still has to be served: its datagrams waiting in the server's
\* socket and the handlers started for it that have not run
Pending(p) ==
    <<[m \in {m \in BagToSet(net) : m.src = p /\ m.dst = ServerAddr} |-> net[m]],
      [h \in {h \in BagToSet(handlers) : h.addr = p} |-> handlers[h]]>>

\* Serve has read no valid ReadRequest of peer p: none has been answered and
\* none has a handler still to run
NoRequestYet(p) ==
    /\ \A k \in 1..Len(sent[p]) : sent[p][k].by # "rrq"
    /\ \A h \in BagToSet(handlers) : ~(h.addr = p /\ h.op.type = "rrq")

\* an undisturbed run: no datagram lost or duplicated, no read failed, and
\* no other peer on the wire
Undisturbed == faults = 0 /\ injected = 0

(***************************************************************************)
(* Claims                                                                  *)
(***************************************************************************)

\* C1: over a transport that loses, duplicates and reorders nothing, when
\* Send has returned success the bytes written to the output sink are exactly
\* the server's payload.
C1_Fidelity == (Undisturbed /\ cpc = "done") => sink = Payload

\* C2: within one transfer session the k-th Data packet the server writes
\* carries block number k (mod 65536).
C2_BlockNumbers ==
    \A p \in Peers :
        OneRequest(p) =>
            \A k \in 1..Len(Session(p)) : WireBlock(Session(p)[k].wire) = k % Uint16

\* C3: when the handler runs for an Ack whose block number is that of the
\* last Data packet written to the peer, and that packet was a full block,
\* it writes exactly one new Data packet: block b + 1, carrying the payload
\* from offset 512 * b.
C3_AckAdvances ==
    [][\A h \in BagToSet(handlers) :
          ( /\ Handle(h)
            /\ h.op.type = "ack"
            /\ sent[h.addr] # <<>>
            /\ WireBlock(LastSent(h.addr)) = h.op.Block
            /\ Len(LastSent(h.addr)) = DatagramSize )
          => /\ Len(sent'[h.addr]) = Len(sent[h.addr]) + 1
             /\ sent'[h.addr][Len(sent'[h.addr])].wire = NextData(h.op.Block)]_vars

\* C4: when the payload is a positive whole number of blocks, the transfer
\* is reported complete only after the server has written, and the client
\* has acknowledged, one further Data packet with an empty payload.
C4_EmptyLastBlock ==
    (Undisturbed /\ plen > 0 /\ plen % BlockSize = 0 /\ cpc = "done") =>
        LET last == (plen \div BlockSize) + 1 IN
        /\ \E k \in 1..Len(sent[ClientAddr]) :
              sent[ClientAddr][k].wire = PutU16(OpData) \o PutU16(last)
        /\ cAcks # <<>>
        /\ cAcks[Len(cAcks)] = last

\* C5: in a session begun by a ReadRequest, the handler of an Ack whose
\* block number differs from that of the last Data packet written to the
\* peer writes nothing.
C5_StaleAckIgnored ==
    [][\A h \in BagToSet(handlers) :
          ( /\ Handle(h)
            /\ h.op.type = "ack"
            /\ sent[h.addr] # <<>>
            /\ sent[h.addr][1].by = "rrq"
            /\ WireBlock(LastSent(h.addr)) # h.op.Block )
          => UNCHANGED <<sent, net>>]_vars

C7_FullBlockContinues ==
    [][\A m \in BagToSet(net) :
          ( /\ ClientRecv(m)
            /\ IsDataWire(m.data)
            /\ Len(WirePayload(m.data)) = BlockSize )
          => /\ cAcks' = Append(cAcks, WireBlock(m.data))
             /\ cpc' = "waiting"]_vars

\* C8: when the client's read returns a Data packet with a payload shorter
\* than 512 bytes, the client sends exactly one Ack, of that packet's block,
\* and Send returns success; after that it reads and sends nothing more.
C8_ShortBlockEnds ==
    [][ /\ \A m \in BagToSet(net) :
              ( /\ ClientRecv(m)
                /\ IsDataWire(m.data)
                /\ Len(WirePayload(m.data)) < BlockSize )
              => /\ cAcks' = Append(cAcks, WireBlock(m.data))
                 /\ cpc' = "done"
        /\ cpc = "done" => UNCHANGED <<cpc, reads, cAcks, sink>> ]_vars

\* Send has returned success after a short Data packet, which it acknowledged
C8_Witness ==
    /\ cpc = "done"
    /\ IsDataWire(cLast)
    /\ Len(WirePayload(cLast)) < BlockSize
    /\ cAcks = <<WireBlock(cLast)>>

\* C9: if no datagram ever reaches the client, Send ends with the
\* retries-exhausted failure.  (Every datagram of the model is non-empty, so
\* cLast # <<>> says that a read has returned one.)
C9_GivesUp == <>(cLast # <<>> \/ cpc = "failed")

\* C10: a datagram that fails to decode never ends the server's dispatch
\* loop.  (In the model Serve returns for no other reason.)
C10_ServeSurvives == srv = "serving"

\* C11: when Serve reads a ReadRequest with an empty filename, the decode
\* fails, no handler is started for it and no Data packet is written; and
\* once Serve has returned on a datagram, no Data packet is written at all.
C11_EmptyFilenameNoData ==
    [][ /\ \A m \in BagToSet(net) :
              (ServeRecv(m) /\ IsEmptyNameRrq(m.data))
              => /\ ~UnmarshalBinary(ReadFrom(m.data)).ok
                 /\ handlers' \sqsubseteq handlers
                 /\ UNCHANGED sent
        /\ rejected # <<>> => UNCHANGED sent ]_vars

\* Serve has read a ReadRequest with an empty filename
C11_Witness == IsEmptyNameRrq(rejected)

C13_ErrEndsSend ==
    [][\A m \in BagToSet(net) :
          (ClientRecv(m) /\ IsErrWire(m.data)) => cpc' = "failed"]_vars

\* C14: session isolation.  A datagram of the other peer, whatever it is,
\* leaves the server serving and takes nothing away from what the client
\* still has to be served: its waiting datagrams and its handlers.
C14_Isolation ==
    [][\A m \in BagToSet(net) :
          (ServeRecv(m) /\ m.src = OtherAddr)
          => /\ srv' = "serving"
             /\ Pending(ClientAddr)' = Pending(ClientAddr)]_vars

\* C15: encoding a Data value whose stored block is b writes, big-endian in
\* bytes 3 and 4 of the datagram, the block number (b + 1) mod 65536; for
\* b = 65535 it writes 0.
C15_BlockIncrement ==
    codec.fn = "data" =>
        /\ Len(codec.wire) >= 4
        /\ codec.wire[3] \in 0..255 /\ codec.wire[4] \in 0..255
        /\ codec.wire[3] * 256 + codec.wire[4] = (codec.block + 1) % 65536
        /\ codec.block = 65535 => (codec.wire[3] = 0 /\ codec.wire[4] = 0)

\* a Data value of stored block 65535 has been encoded
C15_Witness == codec.fn = "data" /\ codec.block = 65535

\* C16: round trip.  A ReadRequest of an octet mode, a Data value, an Ack and
\* an Err of a short message each encode, and the bytes decode to the same
\* fields (the Data's block being the incremented one); the Err's bytes are
\* op-code, code, message and a zero byte.
C16_RoundTrip ==
    /\ (codec.fn = "rrq" /\ codec.mode \in OctetSpellings) =>
          /\ codec.res.ok
          /\ codec.res.Filename = FileName
          /\ codec.res.Mode = codec.mode
    /\ codec.fn = "data" =>
          /\ codec.back.ok
          /\ codec.back.d.Block = (codec.block + 1) % Uint16
          /\ codec.back.d.Payload = Take(Payload, BlockSize)
    /\ codec.fn = "ack" =>
          /\ codec.back.ok
          /\ codec.back.Block = codec.block
    /\ codec.fn = "err" =>
          /\ codec.enc.ok
          /\ codec.enc.wire = PutU16(OpErr) \o PutU16(codec.code) \o codec.msg \o <<0>>
          /\ codec.back.ok
          /\ codec.back.Error = codec.code
          /\ codec.back.Message = codec.msg

\* C17: the top-level decode gives the variant of the buffer's op-code: a
\* well-formed ReadRequest for op-code 1, Data (whatever follows the 4-byte
\* header being its payload) for op-code 3 and at least 4 bytes, Ack with
\* the block of bytes 3 and 4 for op-code 4 and at least 4 bytes, Err for a
\* well-formed packet of op-code 5; and never a variant of another op-code.
C17_Classifies ==
    codec.fn = "top" =>
        /\ codec.buf = RrqMarshal(FileName, Octet) =>
              codec.res.ok /\ codec.res.op.type = "rrq"
        /\ IsDataWire(codec.buf) =>
              codec.res.ok /\ codec.res.op.type = "data"
        /\ IsAckWire(codec.buf) =>
              /\ codec.res.ok /\ codec.res.op.type = "ack"
              /\ codec.res.op.Block = codec.buf[3] * 256 + codec.buf[4]
        /\ codec.buf = ErrWire =>
              codec.res.ok /\ codec.res.op.type = "err"
        /\ codec.res.ok =>
              OpCodeOf(codec.res.op.type) = codec.buf[1] * 256 + codec.buf[2]

\* C18: the top-level decode of a buffer too short for an op-code, or whose
\* op-code is none of 1, 3, 4, 5, returns an error and no operation.
C18_UnknownOpCodeFails ==
    ( /\ codec.fn = "top"
      /\ \/ Len(codec.buf) < 2
         \/ codec.buf[1] * 256 + codec.buf[2] \notin {1, 3, 4, 5} )
    => /\ ~codec.res.ok
       /\ codec.res.op.type = "none"
       /\ codec.res.op = NoOp

\* a buffer of op-code 2 followed by a block number has been refused
C18_Witness ==
    /\ codec.fn = "top"
    /\ codec.buf = PutU16(2) \o PutU16(1)
    /\ ~codec.res.ok

\* C19: the handler of an Err packet writes no datagram; and once it has run
\* for a peer with a session (one whose ReadRequest had been answered by
\* then), no handler of an Ack of that peer writes a Data packet.
C19_ErrEndsSession ==
    [][\A h \in BagToSet(handlers) :
          /\ (Handle(h) /\ h.op.type = "err") => UNCHANGED <<sent, net>>
          /\ ( /\ Handle(h)
               /\ h.op.type = "ack"
               /\ errored[h.addr] >= 1
               /\ sent[h.addr][1].by = "rrq" )
             => UNCHANGED sent]_vars

\* C20: the handler of an Ack, of whatever block, of a peer from which the
\* server has read no valid ReadRequest writes no Data packet.
C20_NoSessionNoData ==
    [][\A h \in BagToSet(handlers) :
          (Handle(h) /\ h.op.type = "ack" /\ NoRequestYet(h.addr))
          => UNCHANGED <<sent, net>>]_vars

\* C21: once a Data packet with a payload shorter than 512 bytes has been
\* written to a peer in answer to its ReadRequest, no handler of an Ack of
\* that peer writes a Data packet.
C21_FinalBlockEnds ==
    [][\A h \in BagToSet(handlers) :
          ( /\ Handle(h)
            /\ h.op.type = "ack"
            /\ \E k \in 1..Len(sent[h.addr]) :
                  /\ sent[h.addr][k].by = "rrq"
                  /\ Len(WirePayload(sent[h.addr][k].wire)) < BlockSize )
          => UNCHANGED <<sent, net>>]_vars

\* C22: the handler of a ReadRequest of a peer whose session is active (the
\* last Data packet written to it was a full block, and Serve has read no
\* Ack of that block from it) writes no Data packet.
C22_SecondRequestIgnored ==
    [][\A h \in BagToSet(handlers) :
          ( /\ Handle(h)
            /\ h.op.type = "rrq"
            /\ sent[h.addr] # <<>>
            /\ sent[h.addr][1].by = "rrq"
            /\ Len(LastSent(h.addr)) = DatagramSize
            /\ WireBlock(LastSent(h.addr)) \notin acked[h.addr] )
          => UNCHANGED <<sent, net>>]_vars

\* C23: one Data packet per trigger, and none without one.  The Data packets
\* written change only when a handler runs (never by the passing of time);
\* a handler writes at most one; and it writes one only for a ReadRequest or
\* for an Ack of the block of the last Data packet written to the peer.
C23_OncePerTrigger ==
    [][ /\ sent' # sent => \E h \in BagToSet(handlers) : Handle(h)
        /\ \A h \in BagToSet(handlers) :
              Handle(h) =>
                 /\ \A p \in Peers \ {h.addr} : sent'[p] = sent[p]
                 /\ Len(sent'[h.addr]) <= Len(sent[h.addr]) + 1
                 /\ sent' # sent =>
                       \/ h.op.type = "rrq"
                       \/ /\ h.op.type = "ack"
                          /\ sent[h.addr] # <<>>
                          /\ WireBlock(LastSent(h.addr)) = h.op.Block ]_vars

\* C24: when the client's read returns a Data packet whose block number is
\* not the next one expected (one more than the number of blocks accepted so
\* far), nothing is written to the sink.
C24_OutOfSequenceDiscarded ==
    [][\A m \in BagToSet(net) :
          ( /\ ClientRecv(m)
            /\ IsDataWire(m.data)
            /\ WireBlock(m.data) # Len(cAcks) + 1 )
          => UNCHANGED sink]_vars

\* C25: after a Data value has been encoded and sent, the block counter of
\* the value the caller holds is the block number written on the wire.
C25_CallerSeesBlock ==
    codec.fn = "send" => codec.caller.Block = WireBlock(codec.wire)

\* C26: a datagram read by the client that does not decode as Data costs
\* exactly one retry and nothing else: the counter goes down by one, nothing
\* is written or sent, and Send fails when the counter reaches 0 and waits
\* otherwise; and Send has failed only after exactly Retries reads.
C26_UndecodableCostsOne ==
    [][ /\ \A m \in BagToSet(net) :
              (ClientRecv(m) /\ NotData(m.data))
              => /\ tries' = tries - 1
                 /\ reads' = reads + 1
                 /\ UNCHANGED <<sink, cAcks>>
                 /\ \A d \in BagToSet(net') : d.src = ClientAddr => BagIn(d, net)
                 /\ cpc' = IF tries' = 0 THEN "failed" ELSE "waiting"
        /\ cpc' = "failed" => reads' = Retries ]_vars

\* Send has failed after two reads, both of datagrams, the last an Err packet
C26_Witness ==
    /\ cpc = "failed"
    /\ Retries = 2
    /\ reads = 2
    /\ faults = 0
    /\ IsErrWire(cLast)

\* C27: the client writes its ReadRequest once, first; every other datagram
\* it writes is an Ack, one for each Data packet it accepted (each of which
\* put one buffer's payload in the sink); and a read that fails, or returns a
\* datagram that is no Data packet, makes it write nothing.
C27_RequestOnce ==
    [][ /\ (ClientReadErr \/ \E m \in BagToSet(net) : ClientRecv(m) /\ NotData(m.data))
           => cSent' = cSent
        /\ cSent' # <<>> =>
              /\ cSent'[1] = PutU16(OpRRQ) \o FileName \o <<0>> \o Octet \o <<0>>
              /\ \A k \in 2..Len(cSent') : IsAckWire(cSent'[k])
              /\ (Len(cSent') - 1) * BlockSize = Len(sink')
        /\ cpc' # "init" => cSent' # <<>> ]_vars

\* Send has failed after a failed read and an undecodable datagram, having
\* written its ReadRequest and nothing else
C27_Witness ==
    /\ cpc = "failed"
    /\ Retries = 2
    /\ faults = 1
    /\ cLast # <<>>
    /\ Len(cSent) = 1

\* C28: when the client's read returns a Data packet the server sent with a
\* payload of k bytes, exactly those k bytes are appended to the sink.
C28_NoPadding ==
    [][\A m \in BagToSet(net) :
          (ClientRecv(m) /\ m.src = ServerAddr /\ IsDataWire(m.data))
          => /\ sink' = sink \o WirePayload(m.data)
             /\ Len(sink') = Len(sink) + (Len(m.data) - 4)]_vars

\* C29: prefix invariant.  Whatever the transport loses, duplicates or
\* reorders (no other peer sending), the bytes written to the sink so far are
\* a prefix of the server's payload.
C29_Prefix ==
    injected = 0 =>
        /\ Len(sink) <= Len(Payload)
        /\ \A k \in 1..Len(sink) : sink[k] = Payload[k]

====
